---- MODULE Spec2Model ----
(***************************************************************************)
(* RaftStore (meilisearch-http/src/raft/store.rs): the storage adapter     *)
(* that async-raft drives.  The heed environment (log database + "meta"    *)
(* slots) is one variable, env, whose value is the last committed          *)
(* transaction; a handler builds a transaction value from env and the      *)
(* action installs it when txn.commit() succeeds.  The application         *)
(* database (self.store), the snapshot directory and the volatile          *)
(* next_serial counter live outside that environment.                      *)
(***************************************************************************)
EXTENDS Integers, Sequences, FiniteSets, TLC

\* ---------------------------------------------------------------- bounds
MaxIndex == 2          \* log indices are 1..MaxIndex
MaxSerial == 1         \* request serials / snapshot counter values are 0..MaxSerial
MaxReaders == 2        \* requests that hold a database handle at the same time
MaxOld == 2            \* swapped-out handles still held when a snapshot is installed

Idx == 1..MaxIndex
Terms == {1, 2}
Serials == 0..MaxSerial

\* Option<T>: None is the empty sequence, Some(v) the one-element sequence.
None == << >>
Some(v) == << v >>
IsSome(o) == o # None
Unwrap(o) == o[1]

\* ------------------------------------------------------------- data model
Self == 1                                   \* self.id

\* MembershipConfig, reduced to its member set.
new_initial_membership == {Self}            \* MembershipConfig::new_initial(self.id)
Memberships == {{1}, {1, 2}}

\* Message variants (apply_message); one index uid is enough to collide on.
Uids == {"movies"}
Messages ==
    [kind : {"CreateIndex", "DeleteIndex"}, uid : Uids, parses : {TRUE}]
    \cup [kind : {"DocumentAddition"}, uid : Uids, parses : BOOLEAN]

\* ClientRequest {serial, message}
Requests == [serial : Serials, message : Messages]
NoRequest == [serial |-> 0, message |-> [kind |-> "None", uid |-> "", parses |-> TRUE]]

\* EntryPayload, as one record shape: data is used by Normal, membership by
\* ConfigChange and SnapshotPointer, id by SnapshotPointer.
Blank == [kind |-> "Blank", data |-> NoRequest, membership |-> {}, id |-> -1]
Normal(r) == [kind |-> "Normal", data |-> r, membership |-> {}, id |-> -1]
ConfigChange(m) == [kind |-> "ConfigChange", data |-> NoRequest, membership |-> m, id |-> -1]
SnapshotPointer(i, m) == [kind |-> "SnapshotPointer", data |-> NoRequest, membership |-> m, id |-> i]

Entry(i, t, p) == [index |-> i, term |-> t, payload |-> p]

\* Entry::new_snapshot_pointer(index, term, id, membership)
new_snapshot_pointer(i, t, id, m) == Entry(i, t, SnapshotPointer(id, m))

\* The application database: the index uids that exist, the uids that hold
\* documents, and the log indices whose commands it has executed.
EmptyDb == [indexes |-> {}, documents |-> {}, applied |-> {}]

\* InitialState::new_initial(id)
new_initial_state ==
    [last_log_index |-> 0, last_log_term |-> 0, last_applied_log |-> 0,
     hard_state |-> [current_term |-> 0, voted_for |-> None],
     membership |-> new_initial_membership]

VARIABLES
    env,            \* committed heed environment: logs + the four meta slots
    db,             \* self.store.db: the live application database
    snapshot_dir,   \* snapshot_dir: counter value n |-> content of snapshot-n.snap
    temp_snap,      \* snapshot_dir/temp.snap
    next_serial,    \* self.next_serial (AtomicU64, volatile)
    tasks,          \* append_entry_to_log calls running on their own tasks
    handles,        \* readers in flight on self.store.db and on handles it replaced
    last            \* the call that just returned: its name, arguments and result

vars == << env, db, snapshot_dir, temp_snap, next_serial, tasks, handles, last >>

\* --------------------------------------------------------- heed accessors
logs_get(logs, k) == IF k \in DOMAIN logs THEN logs[k] ELSE None

\* self.logs.delete_range(txn, lo..=hi)
delete_range(logs, lo, hi) ==
    [k \in DOMAIN logs |-> IF lo <= k /\ k <= hi THEN None ELSE logs[k]]

\* self.logs.clear(txn)
logs_clear(logs) == [k \in DOMAIN logs |-> None]

\* self.logs.last(txn): the entry under the greatest key
logs_last(logs) ==
    LET keys == {k \in DOMAIN logs : IsSome(logs[k])}
    IN IF keys = {} THEN None
       ELSE Some(Unwrap(logs[CHOOSE k \in keys : \A j \in keys : j <= k]))

hard_state(txn) == txn.hard_state
set_hard_state(txn, hs) == [txn EXCEPT !.hard_state = Some(hs)]
last_applied_log(txn) == txn.last_commited
set_last_applied_log(txn, i) == [txn EXCEPT !.last_commited = Some(i)]
membership_config(txn) == txn.membership
set_membership_config(txn, cfg) == [txn EXCEPT !.membership = Some(cfg)]
current_snapshot(txn) == txn.snapshot_path
set_current_snapshot(txn, snap) == [txn EXCEPT !.snapshot_path = Some(snap)]

unwrap_or(o, d) == IF IsSome(o) THEN Unwrap(o) ELSE d

\* put_log that leaves the membership slot alone
put_log_without_membership(txn, index, entry) == [txn EXCEPT !.logs[index] = Some(entry)]

\* put_log: a ConfigChange payload also overwrites the membership slot
put_log(txn, index, entry) ==
    LET t1 == IF entry.payload.kind = "ConfigChange"
              THEN set_membership_config(txn, entry.payload.membership)
              ELSE txn
    IN [t1 EXCEPT !.logs[index] = Some(entry)]

\* get_membership_config: the slot, or the single-node initial configuration
get_membership_config(txn) == unwrap_or(membership_config(txn), new_initial_membership)

\* ------------------------------------------------------------ bookkeeping
\* The value of `last` after a call: its name, the error it returned ("" for
\* Ok), the log index a successful call was about (0 when it has none) and the
\* value it returned (with the arguments the index does not tell).
Call(op, err, index, ret) == [op |-> op, err |-> err, index |-> index, ret |-> ret]
Ok == ""
TransactionFailure == "TransactionFailure"      \* txn.commit() failed
\* the error of a call that ends at txn.commit()
Committed(commit) == IF commit THEN Ok ELSE TransactionFailure
\* `last` says that op has just returned Ok
Returned(op) == last.op = op /\ last.err = Ok

\* The two append_entry_to_log calls that may run at the same time; a task is
\* idle until it is called.
Tasks == {1, 2}
IdleTask == [pc |-> "idle", entry |-> None, txn |-> None]

\* self.store.db is an atomically swappable Arc<Db>.  A request that wants to
\* read loads the Arc and keeps it until it is done: `live` counts the requests
\* holding the current handle.  `old` holds the handles that were swapped out
\* while requests were still holding them: the database behind the handle, the
\* requests still holding it, where its releaser thread stands, and whether
\* its environment has been closed.  (A handle swapped out while nobody held
\* it is owned by the releaser alone and is not tracked.)
NoHandles == [live |-> 0, old |-> {}]
OldHandle(d, readers, releaser, closed) ==
    [content |-> d, readers |-> readers, releaser |-> releaser, closed |-> closed]

Init ==
    /\ env = [logs |-> [k \in Idx |-> None], hard_state |-> None, last_commited |-> None,
              membership |-> None, snapshot_path |-> None]
    /\ db = EmptyDb
    /\ snapshot_dir = [n \in Serials |-> None]
    /\ temp_snap = None
    /\ next_serial = 0
    /\ tasks = [t \in Tasks |-> IdleTask]
    /\ handles = NoHandles
    /\ last = Call("new", Ok, 0, None)

\* --------------------------------------------------------------- handlers
\* get_initial_state (commit: whether txn.commit() succeeds)
get_initial_state_result(txn) ==
    IF IsSome(hard_state(txn))
    THEN LET last_entry == logs_last(txn.logs)
         IN [last_log_index |-> IF IsSome(last_entry) THEN Unwrap(last_entry).index ELSE 0,
             last_log_term |-> IF IsSome(last_entry) THEN Unwrap(last_entry).term ELSE 0,
             last_applied_log |-> unwrap_or(last_applied_log(txn), 0),
             hard_state |-> Unwrap(hard_state(txn)),
             membership |-> get_membership_config(txn)]
    ELSE new_initial_state

\* get_initial_state that returns the synthesized state without persisting it
get_initial_state_without_persist(commit) ==
    /\ last' = Call("get_initial_state", Committed(commit), 0,
                    IF commit THEN Some(get_initial_state_result(env)) ELSE None)
    /\ UNCHANGED << env, db, snapshot_dir, temp_snap, next_serial, tasks, handles >>

get_initial_state(commit) ==
    LET state == get_initial_state_result(env)
        txn == IF IsSome(hard_state(env)) THEN env ELSE set_hard_state(env, state.hard_state)
    IN /\ env' = IF commit THEN txn ELSE env
       /\ last' = Call("get_initial_state", Committed(commit), 0, IF commit THEN Some(state) ELSE None)
       /\ UNCHANGED << db, snapshot_dir, temp_snap, next_serial, tasks, handles >>

save_hard_state(hs, commit) ==
    /\ env' = IF commit THEN set_hard_state(env, hs) ELSE env
    /\ last' = Call("save_hard_state", Committed(commit), 0, None)
    /\ UNCHANGED << db, snapshot_dir, temp_snap, next_serial, tasks, handles >>

\* delete_logs_from whose range includes `stop`
delete_logs_from_through_stop(start, stop, commit) ==
    LET txn == IF IsSome(stop)
               THEN [env EXCEPT !.logs = delete_range(env.logs, start, Unwrap(stop))]
               ELSE [env EXCEPT !.logs = delete_range(env.logs, start, MaxIndex)]
    IN /\ env' = IF commit THEN txn ELSE env
       /\ last' = Call("delete_logs_from", Committed(commit), IF commit THEN start ELSE 0,
                       IF commit THEN Some(stop) ELSE None)
       /\ UNCHANGED << db, snapshot_dir, temp_snap, next_serial, tasks, handles >>

\* delete_logs_from(start, stop): start..stop when stop is given, else start..
delete_logs_from(start, stop, commit) ==
    LET txn == IF IsSome(stop)
               THEN [env EXCEPT !.logs = delete_range(env.logs, start, Unwrap(stop) - 1)]
               ELSE [env EXCEPT !.logs = delete_range(env.logs, start, MaxIndex)]
    IN /\ env' = IF commit THEN txn ELSE env
       /\ last' = Call("delete_logs_from", Committed(commit), IF commit THEN start ELSE 0,
                       IF commit THEN Some(stop) ELSE None)
       /\ UNCHANGED << db, snapshot_dir, temp_snap, next_serial, tasks, handles >>

append_entry_to_log(entry, commit) ==
    LET txn == put_log(env, entry.index, entry)
    IN /\ env' = IF commit THEN txn ELSE env
       /\ last' = Call("append_entry_to_log", Committed(commit),
                       IF commit THEN entry.index ELSE 0,
                       IF commit THEN Some(entry) ELSE None)
       /\ UNCHANGED << db, snapshot_dir, temp_snap, next_serial, tasks, handles >>

\* the for loop of replicate_to_log
RECURSIVE put_logs(_, _)
put_logs(txn, entries) ==
    IF entries = << >> THEN txn
    ELSE put_logs(put_log(txn, Head(entries).index, Head(entries)), Tail(entries))

replicate_to_log(entries, commit) ==
    LET txn == put_logs(env, entries)
    IN /\ env' = IF commit THEN txn ELSE env
       /\ last' = Call("replicate_to_log", Committed(commit), 0,
                       IF commit THEN Some(entries) ELSE None)
       /\ UNCHANGED << db, snapshot_dir, temp_snap, next_serial, tasks, handles >>

\* ---------------------------------------------------------- state machine
\* self.store (crate::Data): what the search database does with a command.
store_create_index(d, uid) ==
    IF uid \in d.indexes THEN [db |-> d, ok |-> FALSE]
    ELSE [db |-> [d EXCEPT !.indexes = @ \cup {uid}], ok |-> TRUE]

store_delete_index(d, uid) ==
    IF uid \notin d.indexes THEN [db |-> d, ok |-> FALSE]
    ELSE [db |-> [d EXCEPT !.indexes = @ \ {uid}, !.documents = @ \ {uid}], ok |-> TRUE]

store_update_multiple_documents(d, uid) ==
    IF uid \notin d.indexes THEN [db |-> d, ok |-> FALSE]
    ELSE [db |-> [d EXCEPT !.documents = @ \cup {uid}], ok |-> TRUE]

Response(variant, ok) == [variant |-> variant, ok |-> ok]

\* apply_message that returns Err(..) when the store rejects the command
apply_message_rejection_fails(d, message) ==
    IF message.kind = "CreateIndex"
    THEN LET r == store_create_index(d, message.uid)
         IN [ok |-> r.ok, db |-> r.db, response |-> Response("IndexUpdate", r.ok)]
    ELSE IF message.kind = "DeleteIndex"
    THEN LET r == store_delete_index(d, message.uid)
         IN [ok |-> r.ok, db |-> r.db, response |-> Response("DeleteIndex", r.ok)]
    ELSE IF ~message.parses
    THEN [ok |-> FALSE, db |-> d, response |-> Response("None", FALSE)]
    ELSE LET r == store_update_multiple_documents(d, message.uid)
         IN [ok |-> r.ok, db |-> r.db, response |-> Response("UpdateResponse", r.ok)]

\* apply_message: ok = FALSE is the Err(..) return (serde_json::from_str failed),
\* otherwise response is the ClientResponse and db the database afterwards.
apply_message(d, message) ==
    IF message.kind = "CreateIndex"
    THEN LET r == store_create_index(d, message.uid)
         IN [ok |-> TRUE, db |-> r.db, response |-> Response("IndexUpdate", r.ok)]
    ELSE IF message.kind = "DeleteIndex"
    THEN LET r == store_delete_index(d, message.uid)
         IN [ok |-> TRUE, db |-> r.db, response |-> Response("DeleteIndex", r.ok)]
    ELSE IF ~message.parses
    THEN [ok |-> FALSE, db |-> d, response |-> Response("None", FALSE)]
    ELSE LET r == store_update_multiple_documents(d, message.uid)
         IN [ok |-> TRUE, db |-> r.db, response |-> Response("UpdateResponse", r.ok)]

\* the database after the command of log index `index` has been executed on it
executed(d, index) == [d EXCEPT !.applied = @ \cup {index}]

apply_entry_to_state_machine(index, data, commit) ==
    LET r == apply_message(db, data.message)
        txn == set_last_applied_log(env, index)
    IN /\ next_serial' = data.serial
       /\ db' = IF r.ok THEN executed(r.db, index) ELSE db
       /\ env' = IF r.ok /\ commit THEN txn ELSE env
       /\ last' = Call("apply_entry_to_state_machine",
                       IF ~r.ok THEN "DeserializationError" ELSE Committed(commit),
                       index,
                       Some([request |-> data,
                             response |-> IF r.ok /\ commit THEN Some(r.response) ELSE None]))
       /\ UNCHANGED << snapshot_dir, temp_snap, tasks, handles >>

\* the for loop of replicate_to_state_machine over (index, request) pairs:
\* the database and last_applied_log after it, and whether it ran to the end
RECURSIVE apply_messages(_, _, _)
apply_messages(d, last_applied, entries) ==
    IF entries = << >> THEN [ok |-> TRUE, db |-> d, last_applied_log |-> last_applied]
    ELSE LET r == apply_message(d, Head(entries)[2].message)
         IN IF ~r.ok THEN [ok |-> FALSE, db |-> d, last_applied_log |-> Head(entries)[1]]
            ELSE apply_messages(executed(r.db, Head(entries)[1]), Head(entries)[1],
                                Tail(entries))

\* replicate_to_state_machine that stores the index of the first entry
replicate_to_state_machine_first_index(entries, commit) ==
    LET r == apply_messages(db, unwrap_or(last_applied_log(env), 0), entries)
        txn == set_last_applied_log(env, IF entries = << >> THEN r.last_applied_log
                                         ELSE entries[1][1])
    IN /\ db' = r.db
       /\ env' = IF r.ok /\ commit THEN txn ELSE env
       /\ last' = Call("replicate_to_state_machine",
                       IF ~r.ok THEN "DeserializationError" ELSE Committed(commit), 0,
                       IF r.ok /\ commit THEN Some(entries) ELSE None)
       /\ UNCHANGED << snapshot_dir, temp_snap, next_serial, tasks, handles >>

replicate_to_state_machine(entries, commit) ==
    LET r == apply_messages(db, unwrap_or(last_applied_log(env), 0), entries)
        txn == set_last_applied_log(env, r.last_applied_log)
    IN /\ db' = r.db
       /\ env' = IF r.ok /\ commit THEN txn ELSE env
       /\ last' = Call("replicate_to_state_machine",
                       IF ~r.ok THEN "DeserializationError" ELSE Committed(commit), 0,
                       IF r.ok /\ commit THEN Some(entries) ELSE None)
       /\ UNCHANGED << snapshot_dir, temp_snap, next_serial, tasks, handles >>

\* ------------------------------------------------------------- snapshots
\* A file of the snapshot directory: the database it archives, and whether
\* the archive was written to the end.
Archive(d) == [content |-> d, complete |-> TRUE]
Partial(d) == [content |-> d, complete |-> FALSE]

\* crate::snapshot::create_snapshot(&self.store, path): the entire application
\* database as it is now
create_snapshot_file(d) == Archive(d)

\* crate::helpers::compression::from_tar_gz + Db::open_or_create: the database
\* the archive unpacks to
from_tar_gz(file) == file.content

RaftSnapshot(id, index, term, membership) ==
    [id |-> id, index |-> index, term |-> term, membership |-> membership]

CompactOutcomes == {"ok", "create_failed", "rename_failed", "commit_failed"}

\* compact_txn with the range delete running from `through` upwards
compact_txn_deletes_tail(txn, through, term, snapshot_id) ==
    LET membership == get_membership_config(txn)
        entry == new_snapshot_pointer(through, term, snapshot_id, membership)
        t1 == [txn EXCEPT !.logs = delete_range(txn.logs, through, MaxIndex)]
        t2 == put_log(t1, through, entry)
    IN set_current_snapshot(t2, RaftSnapshot(snapshot_id, through, term, membership))

\* the write transaction of create_snapshot_and_compact, from step 6 on
compact_txn(txn, through, term, snapshot_id) ==
    LET membership == get_membership_config(txn)
        entry == new_snapshot_pointer(through, term, snapshot_id, membership)
        t1 == [txn EXCEPT !.logs = delete_range(txn.logs, 0, through)]
        t2 == put_log(t1, through, entry)
    IN set_current_snapshot(t2, RaftSnapshot(snapshot_id, through, term, membership))

\* do_log_compaction that allocates the snapshot id before it reads the term
do_log_compaction_id_first(through, outcome) ==
    IF logs_get(env.logs, through) = None
    THEN /\ next_serial \in Serials
         /\ next_serial' = next_serial + 1
         /\ last' = Call("do_log_compaction", "InconsistentLog", through, None)
         /\ UNCHANGED << env, db, snapshot_dir, temp_snap, tasks, handles >>
    ELSE LET term == Unwrap(env.logs[through]).term
             snapshot_id == next_serial
         IN /\ next_serial \in Serials
            /\ next_serial' = next_serial + 1
            /\ temp_snap' = IF outcome = "create_failed" THEN Some(Partial(db))
                            ELSE IF outcome = "rename_failed"
                            THEN Some(create_snapshot_file(db))
                            ELSE None
            /\ snapshot_dir' = IF outcome \in {"ok", "commit_failed"}
                               THEN [snapshot_dir EXCEPT
                                        ![snapshot_id] = Some(create_snapshot_file(db))]
                               ELSE snapshot_dir
            /\ env' = IF outcome = "ok"
                      THEN compact_txn(env, through, term, snapshot_id)
                      ELSE env
            /\ last' = Call("do_log_compaction",
                            IF outcome = "ok" THEN Ok
                            ELSE IF outcome = "commit_failed" THEN TransactionFailure
                            ELSE "IO",
                            IF outcome = "ok" THEN through ELSE 0, None)
            /\ UNCHANGED << db, tasks, handles >>

\* do_log_compaction(through) = create_snapshot_and_compact(through), then
\* File::open of the file it renamed into place
do_log_compaction(through, outcome) ==
    IF logs_get(env.logs, through) = None
    THEN /\ last' = Call("do_log_compaction", "InconsistentLog", through, None)
         /\ UNCHANGED << env, db, snapshot_dir, temp_snap, next_serial, tasks, handles >>
    ELSE LET term == Unwrap(env.logs[through]).term
             snapshot_id == next_serial
         IN /\ next_serial \in Serials
            /\ next_serial' = next_serial + 1
            /\ temp_snap' = IF outcome = "create_failed" THEN Some(Partial(db))
                            ELSE IF outcome = "rename_failed"
                            THEN Some(create_snapshot_file(db))
                            ELSE None
            /\ snapshot_dir' = IF outcome \in {"ok", "commit_failed"}
                               THEN [snapshot_dir EXCEPT
                                        ![snapshot_id] = Some(create_snapshot_file(db))]
                               ELSE snapshot_dir
            /\ env' = IF outcome = "ok"
                      THEN compact_txn(env, through, term, snapshot_id)
                      ELSE env
            /\ last' = Call("do_log_compaction",
                            IF outcome = "ok" THEN Ok
                            ELSE IF outcome = "commit_failed" THEN TransactionFailure
                            ELSE "IO",
                            IF outcome = "ok" THEN through ELSE 0, None)
            /\ UNCHANGED << db, tasks, handles >>

\* create_snapshot: a new id, and File::open of the path it names
create_snapshot ==
    /\ next_serial \in Serials
    /\ next_serial' = next_serial + 1
    /\ last' = Call("create_snapshot", IF IsSome(snapshot_dir[next_serial]) THEN Ok ELSE "IO", 0,
                    None)
    /\ UNCHANGED << env, db, snapshot_dir, temp_snap, tasks, handles >>

InstallOutcomes == {"ok", "unpack_failed", "open_failed", "commit_failed"}

\* install_txn that truncates below `index` also when delete_through is None
install_txn_keeps_tail(txn, index, term, delete_through, id) ==
    LET t1 == [txn EXCEPT !.logs = delete_range(txn.logs, 0, index - 1)]
        membership == get_membership_config(t1)
        entry == new_snapshot_pointer(index, term, id, membership)
        t2 == put_log(t1, index, entry)
    IN set_current_snapshot(t2, RaftSnapshot(id, index, term, membership))

\* the write transaction of finalize_snapshot_installation
install_txn(txn, index, term, delete_through, id) ==
    LET t1 == IF IsSome(delete_through)
              THEN [txn EXCEPT !.logs = delete_range(txn.logs, 0, Unwrap(delete_through) - 1)]
              ELSE [txn EXCEPT !.logs = logs_clear(txn.logs)]
        membership == get_membership_config(t1)
        entry == new_snapshot_pointer(index, term, id, membership)
        t2 == put_log(t1, index, entry)
    IN set_current_snapshot(t2, RaftSnapshot(id, index, term, membership))

\* self.store.db.swap(Arc::new(new_db)): the requests holding the handle keep
\* the database that was live; the thread that is to release it is spawned
\* only when the function gets past txn.commit()
swap(h, d, spawned) ==
    IF h.live = 0 THEN h
    ELSE [live |-> 0,
          old |-> h.old \cup {OldHandle(d, h.live, IF spawned THEN "spawned" ELSE "none", FALSE)}]

finalize_snapshot_installation(index, term, delete_through, id, outcome) ==
    LET file == snapshot_dir[id]
        unpacked == IsSome(file) /\ Unwrap(file).complete /\ outcome # "unpack_failed"
        swapped == unpacked /\ outcome # "open_failed"
        ok == swapped /\ outcome = "ok"
    IN /\ db' = IF swapped THEN from_tar_gz(Unwrap(file)) ELSE db
       /\ env' = IF ok THEN install_txn(env, index, term, delete_through, id) ELSE env
       /\ last' = Call("finalize_snapshot_installation",
                       IF ok THEN Ok ELSE IF swapped THEN TransactionFailure ELSE "IO",
                       IF ok THEN index ELSE 0,
                       IF ok THEN Some([term |-> term, delete_through |-> delete_through,
                                        id |-> id])
                       ELSE None)
       /\ handles' = IF swapped THEN swap(handles, db, ok) ELSE handles
       /\ UNCHANGED << snapshot_dir, temp_snap, next_serial, tasks >>

\* the process is killed and RaftStore::new opens the same directories again
\* (last.index: the index whose apply_entry_to_state_machine had just returned)
Restart ==
    /\ next_serial' = 0
    /\ last' = Call("new", Ok,
                    IF Returned("apply_entry_to_state_machine") THEN last.index ELSE 0, None)
    /\ tasks' = [t \in Tasks |-> IdleTask]
    /\ handles' = NoHandles
    /\ UNCHANGED << env, db, snapshot_dir, temp_snap >>

\* ------------------------------------------------------------------ inputs
\* A call whose transaction does not commit leaves the same state whatever its
\* arguments were, so the failing outcomes are drawn for one argument value.
HardStates == [current_term : Terms, voted_for : {Some(Self)}]
StopValues == {None} \cup {Some(i) : i \in Idx}
LogPayloads == {Blank} \cup {ConfigChange(m) : m \in Memberships}
LogEntries == {Entry(i, t, p) : i \in Idx, t \in Terms, p \in LogPayloads}
\* batches of replicate_to_log: up to two entries of one term at consecutive indices
LogBatches ==
    {<< >>} \cup {<< e >> : e \in LogEntries}
    \cup {b \in LogEntries \X LogEntries : b[2].index = b[1].index + 1 /\ b[2].term = b[1].term}

GetInitialState == \E commit \in BOOLEAN : get_initial_state(commit)
DeleteLogsFrom ==
    \/ \E start \in Idx, stop \in StopValues : delete_logs_from(start, stop, TRUE)
    \/ delete_logs_from(1, None, FALSE)
AppendEntryToLog ==
    \/ \E entry \in LogEntries : append_entry_to_log(entry, TRUE)
    \/ append_entry_to_log(Entry(1, 1, Blank), FALSE)
ReplicateToLog ==
    \/ \E entries \in LogBatches : replicate_to_log(entries, TRUE)
    \/ replicate_to_log(<< >>, FALSE)
DoLogCompaction ==
    \E through \in Idx, outcome \in CompactOutcomes : do_log_compaction(through, outcome)
\* compaction whose snapshot file is written and renamed without an I/O error
DoLogCompactionNoIoError ==
    \E through \in Idx, outcome \in {"ok", "commit_failed"} :
        do_log_compaction(through, outcome)
FinalizeSnapshotInstallation ==
    \/ \E index \in Idx, term \in Terms, delete_through \in StopValues, id \in Serials :
          finalize_snapshot_installation(index, term, delete_through, id, "ok")
    \/ \E id \in Serials, outcome \in InstallOutcomes \ {"ok"} :
          finalize_snapshot_installation(1, 1, None, id, outcome)

\* the log, membership and snapshot operations
NextLog ==
    \/ DeleteLogsFrom
    \/ AppendEntryToLog
    \/ ReplicateToLog
    \/ DoLogCompaction
    \/ FinalizeSnapshotInstallation

SpecLog == Init /\ [][NextLog]_vars

\* ---- bootstrap and apply operations ----
BlankEntries == {Entry(i, t, Blank) : i \in Idx, t \in Terms}
\* batches of replicate_to_state_machine: up to two requests at consecutive indices
ApplyBatches ==
    {<< >>} \cup {<< << i, r >> >> : i \in Idx, r \in {q \in Requests : q.serial = 0}}
    \cup {<< << i, [serial |-> 0, message |-> m] >>, << i + 1, [serial |-> 0, message |-> n] >> >> :
             i \in 1..(MaxIndex - 1), m \in Messages, n \in Messages}

SaveHardState ==
    \/ \E hs \in HardStates : save_hard_state(hs, TRUE)
    \/ save_hard_state([current_term |-> 1, voted_for |-> None], FALSE)
AppendBlank ==
    \/ \E entry \in BlankEntries : append_entry_to_log(entry, TRUE)
    \/ append_entry_to_log(Entry(1, 1, Blank), FALSE)
ApplyEntryToStateMachine ==
    \E index \in Idx, data \in Requests, commit \in BOOLEAN :
        apply_entry_to_state_machine(index, data, commit)
ReplicateToStateMachine ==
    \E entries \in ApplyBatches, commit \in BOOLEAN : replicate_to_state_machine(entries, commit)

NextApply ==
    \/ GetInitialState
    \/ SaveHardState
    \/ AppendBlank
    \/ DeleteLogsFrom
    \/ ApplyEntryToStateMachine
    \/ ReplicateToStateMachine
    \/ Restart

SpecApply == Init /\ [][NextApply]_vars

\* ---- snapshot operations next to the state machine ----
CreateIndexRequests == {q \in Requests : q.message.kind = "CreateIndex"}
ApplyCreateIndex ==
    \E index \in Idx, data \in CreateIndexRequests :
        apply_entry_to_state_machine(index, data, TRUE)

NextSnap ==
    \/ AppendBlank
    \/ ApplyCreateIndex
    \/ DoLogCompactionNoIoError
    \/ create_snapshot
    \/ FinalizeSnapshotInstallation
    \/ Restart

SpecSnap == Init /\ [][NextSnap]_vars

\* ---- bootstrap next to the log and the snapshot operations ----
NextBoot ==
    \/ GetInitialState
    \/ SaveHardState
    \/ AppendBlank
    \/ DoLogCompactionNoIoError
    \/ FinalizeSnapshotInstallation

SpecBoot == Init /\ [][NextBoot]_vars

\* ---- the log as the consensus runtime grows it: entries are written right
\* after the last one, and a conflicting tail is truncated first ----
last_log_index(logs) == IF IsSome(logs_last(logs)) THEN Unwrap(logs_last(logs)).index ELSE 0

AppendAtTail ==
    \E entry \in LogEntries :
        /\ entry.index = last_log_index(env.logs) + 1
        /\ append_entry_to_log(entry, TRUE)
ReplicateAtTail ==
    \E entries \in LogBatches \ {<< >>} :
        /\ entries[1].index = last_log_index(env.logs) + 1
        /\ replicate_to_log(entries, TRUE)

NextTail ==
    \/ AppendAtTail
    \/ ReplicateAtTail
    \/ DeleteLogsFrom
    \/ DoLogCompactionNoIoError
    \/ FinalizeSnapshotInstallation

SpecTail == Init /\ [][NextTail]_vars

\* ---- the state machine as the consensus runtime drives it: it asks for the
\* entry right after the last-applied index the store reports, one entry or
\* one batch at a time, and starts over from the stored value after a kill ----
next_to_apply == unwrap_or(last_applied_log(env), 0) + 1

ApplyNext ==
    \E data \in Requests, commit \in BOOLEAN :
        /\ next_to_apply \in Idx
        /\ apply_entry_to_state_machine(next_to_apply, data, commit)
ReplicateNext ==
    \E entries \in ApplyBatches \ {<< >>}, commit \in BOOLEAN :
        /\ entries[1][1] = next_to_apply
        /\ replicate_to_state_machine(entries, commit)

NextReplay ==
    \/ ApplyNext
    \/ ReplicateNext
    \/ Restart

SpecReplay == Init /\ [][NextReplay]_vars

\* ---- two append_entry_to_log calls on tasks of their own, next to a reader ----
\* the call starts: nothing is held yet
append_call(t, entry) ==
    /\ tasks[t].pc = "idle"
    /\ \A u \in Tasks \ {t} : IsSome(tasks[u].entry) => Unwrap(tasks[u].entry).index # entry.index
    /\ tasks' = [tasks EXCEPT ![t] = [pc |-> "write_txn", entry |-> Some(entry), txn |-> None]]
    /\ UNCHANGED << env, db, snapshot_dir, temp_snap, next_serial, handles, last >>

\* a task holds the environment's write transaction
writer(t) == tasks[t].pc \in {"put_log", "commit"}

\* write_txn that does not wait for the other writer
append_write_txn_without_lock(t) ==
    /\ tasks[t].pc = "write_txn"
    /\ tasks' = [tasks EXCEPT ![t].pc = "put_log", ![t].txn = Some(env)]
    /\ UNCHANGED << env, db, snapshot_dir, temp_snap, next_serial, handles, last >>

\* self.env.write_txn(): returns once no other write transaction is open; the
\* transaction starts from the committed environment
append_write_txn(t) ==
    /\ tasks[t].pc = "write_txn"
    /\ \A u \in Tasks \ {t} : ~writer(u)
    /\ tasks' = [tasks EXCEPT ![t].pc = "put_log", ![t].txn = Some(env)]
    /\ UNCHANGED << env, db, snapshot_dir, temp_snap, next_serial, handles, last >>

\* self.put_log(&mut txn, index, &entry): writes into the transaction only
append_put_log(t) ==
    /\ tasks[t].pc = "put_log"
    /\ tasks' = [tasks EXCEPT ![t].pc = "commit",
                              ![t].txn = Some(put_log(Unwrap(tasks[t].txn),
                                                      Unwrap(tasks[t].entry).index,
                                                      Unwrap(tasks[t].entry)))]
    /\ UNCHANGED << env, db, snapshot_dir, temp_snap, next_serial, handles, last >>

\* txn.commit(); Ok(()): the transaction becomes the committed environment
append_commit(t) ==
    /\ tasks[t].pc = "commit"
    /\ env' = Unwrap(tasks[t].txn)
    /\ tasks' = [tasks EXCEPT ![t].pc = "done", ![t].txn = None]
    /\ last' = Call("append_entry_to_log", Ok, Unwrap(tasks[t].entry).index, tasks[t].entry)
    /\ UNCHANGED << db, snapshot_dir, temp_snap, next_serial, handles >>

\* the entries under the keys start..=stop, in key order
RECURSIVE logs_range(_, _, _)
logs_range(logs, start, stop) ==
    IF start > stop THEN << >>
    ELSE logs_get(logs, start) \o logs_range(logs, start + 1, stop)

\* get_log_entries(start, stop): a read transaction on the committed environment
get_log_entries(start, stop) ==
    /\ last' = Call("get_log_entries", Ok, start, Some(logs_range(env.logs, start, stop)))
    /\ UNCHANGED << env, db, snapshot_dir, temp_snap, next_serial, tasks, handles >>

CallAppend == \E t \in Tasks, entry \in LogEntries : append_call(t, entry)
WriteTxn == \E t \in Tasks : append_write_txn(t)
PutLog == \E t \in Tasks : append_put_log(t)
Commit == \E t \in Tasks : append_commit(t)
GetLogEntries == \E start \in Idx, stop \in Idx : start <= stop /\ get_log_entries(start, stop)

NextConc ==
    \/ CallAppend
    \/ WriteTxn
    \/ PutLog
    \/ Commit
    \/ GetLogEntries

\* A call that has started runs on: the scheduler polls it, and the writer
\* lock it waits for is handed over once its holder has committed.
SpecConc ==
    /\ Init
    /\ [][NextConc]_vars
    /\ \A t \in Tasks : WF_vars(append_write_txn(t) \/ append_put_log(t) \/ append_commit(t))

\* ---- compaction with every outcome, next to the state machine and kills:
\* a process killed inside create_snapshot_and_compact leaves on disk what the
\* call that fails at that step leaves (the open transaction is dropped), and
\* is followed by Restart ----
NextCrash ==
    \/ AppendBlank
    \/ ApplyCreateIndex
    \/ DoLogCompaction
    \/ Restart

SpecCrash == Init /\ [][NextCrash]_vars

\* ---- requests reading the application database next to snapshot installs,
\* and the thread finalize_snapshot_installation spawns for the handle it
\* swapped out (`last` tells a step of a request or of that thread from a
\* call of the storage interface) ----
\* a request loads self.store.db and keeps the handle while it reads
reader_begin ==
    /\ handles.live < MaxReaders
    /\ handles' = [handles EXCEPT !.live = @ + 1]
    /\ last' = Call("request", Ok, 0, None)
    /\ UNCHANGED << env, db, snapshot_dir, temp_snap, next_serial, tasks >>

\* a request holding the live handle is done and drops it
reader_end ==
    /\ handles.live > 0
    /\ handles' = [handles EXCEPT !.live = @ - 1]
    /\ last' = Call("request", Ok, 0, None)
    /\ UNCHANGED << env, db, snapshot_dir, temp_snap, next_serial, tasks >>

\* the tracked handles after handle e has become f: a handle that no request
\* and no releaser thread holds any more is gone
replaced(old, e, f) ==
    (old \ {e}) \cup (IF f.readers = 0 /\ f.releaser \in {"none", "panicked", "done"}
                      THEN {} ELSE {f})

\* a request holding a swapped-out handle is done and drops it (the last owner's
\* drop frees the database)
reader_end_old(e) ==
    /\ e \in handles.old
    /\ e.readers > 0
    /\ handles' = [handles EXCEPT !.old =
                      replaced(@, e, OldHandle(e.content, e.readers - 1, e.releaser, e.closed))]
    /\ last' = Call("request", Ok, 0, None)
    /\ UNCHANGED << env, db, snapshot_dir, temp_snap, next_serial, tasks >>

\* the spawned thread taking the handle whoever else holds it
releaser_takes_ownership(e) ==
    /\ e \in handles.old
    /\ e.releaser = "spawned"
    /\ handles' = [handles EXCEPT !.old =
                      replaced(@, e, OldHandle(e.content, e.readers, "owned", e.closed))]
    /\ last' = Call("releaser", Ok, 0, None)
    /\ UNCHANGED << env, db, snapshot_dir, temp_snap, next_serial, tasks >>

\* the spawned thread: Arc::try_unwrap(old_db) is Ok when the thread is the
\* only owner; otherwise the thread panics and drops its reference
releaser_try_unwrap(e) ==
    /\ e \in handles.old
    /\ e.releaser = "spawned"
    /\ handles' = [handles EXCEPT !.old =
                      replaced(@, e, OldHandle(e.content, e.readers,
                                               IF e.readers = 0 THEN "owned" ELSE "panicked",
                                               e.closed))]
    /\ last' = Call("releaser", Ok, 0, None)
    /\ UNCHANGED << env, db, snapshot_dir, temp_snap, next_serial, tasks >>

\* the spawned thread, owning the database: it leaves the loop on
\* reader_list() when no read transaction but its own is open (a request that
\* holds the handle between two transactions is not in that list), then
\* db.env.close()
releaser_close(e) ==
    /\ e \in handles.old
    /\ e.releaser = "owned"
    /\ \E open_txns \in 0..e.readers : open_txns + 1 <= 1
    /\ handles' = [handles EXCEPT !.old =
                      replaced(@, e, OldHandle(e.content, e.readers, "done", TRUE))]
    /\ last' = Call("close", Ok, 0, None)
    /\ UNCHANGED << env, db, snapshot_dir, temp_snap, next_serial, tasks >>

AppendFirst == append_entry_to_log(Entry(1, 1, Blank), TRUE)
ApplyFirst ==
    \E data \in CreateIndexRequests : apply_entry_to_state_machine(1, data, TRUE)
CompactFirst == do_log_compaction(1, "ok")
InstallSnapshot ==
    \E id \in Serials, outcome \in InstallOutcomes :
        /\ Cardinality(handles.old) < MaxOld
        /\ finalize_snapshot_installation(1, 1, None, id, outcome)
ReaderEndOld == \E e \in handles.old : reader_end_old(e)
ReleaserTryUnwrap == \E e \in handles.old : releaser_try_unwrap(e)
ReleaserClose == \E e \in handles.old : releaser_close(e)

NextSwap ==
    \/ AppendFirst
    \/ ApplyFirst
    \/ CompactFirst
    \/ InstallSnapshot
    \/ reader_begin
    \/ reader_end
    \/ ReaderEndOld
    \/ ReleaserTryUnwrap
    \/ ReleaserClose

SpecSwap == Init /\ [][NextSwap]_vars

\* ================================================================= claims
IsPointer(o) == IsSome(o) /\ Unwrap(o).payload.kind = "SnapshotPointer"

\* C1: a successful do_log_compaction(through) leaves, at every index
\* k <= through, either nothing or the snapshot pointer, which sits at exactly
\* k = through and carries the term of the entry that was there; every entry
\* above `through` is the one that was there before the call.
C1_CompactionKeepsTailOnly ==
    [][(last'.op = "do_log_compaction" /\ last'.err = Ok) =>
         LET through == last'.index
         IN /\ IsSome(env.logs[through])
            /\ \A k \in Idx :
                 IF k <= through
                 THEN \/ env'.logs[k] = None
                      \/ /\ k = through
                         /\ IsPointer(env'.logs[k])
                         /\ Unwrap(env'.logs[k]).index = through
                         /\ Unwrap(env'.logs[k]).term = Unwrap(env.logs[through]).term
                 ELSE env'.logs[k] = env.logs[k]]_vars

\* C1 witness: a compaction below the end of the log has returned; the pointer
\* is in place and an entry above it is still there.
C1_Witness ==
    /\ Returned("do_log_compaction")
    /\ last.index < MaxIndex
    /\ IsPointer(env.logs[last.index])
    /\ \E k \in Idx : k > last.index /\ IsSome(env.logs[k]) /\ ~IsPointer(env.logs[k])

\* C5: when append_entry_to_log or replicate_to_log writes a ConfigChange,
\* get_membership_config() afterwards returns that entry's membership (for a
\* batch, that of its last ConfigChange) and the entries are in the log; when
\* the commit fails neither the log nor the membership slot has changed.
RECURSIVE LastConfigChange(_)
LastConfigChange(entries) ==
    IF entries = << >> THEN None
    ELSE LET e == entries[Len(entries)]
         IN IF e.payload.kind = "ConfigChange" THEN Some(e.payload.membership)
            ELSE LastConfigChange(SubSeq(entries, 1, Len(entries) - 1))

C5_ConfigChangeSetsMembership ==
    [][/\ (last'.op = "append_entry_to_log" /\ last'.err = Ok) =>
            LET e == Unwrap(last'.ret)
            IN /\ env'.logs[e.index] = Some(e)
               /\ e.payload.kind = "ConfigChange" =>
                      get_membership_config(env') = e.payload.membership
       /\ (last'.op = "replicate_to_log" /\ last'.err = Ok) =>
            LET es == Unwrap(last'.ret)
            IN /\ \A j \in 1..Len(es) : env'.logs[es[j].index] = Some(es[j])
               /\ IsSome(LastConfigChange(es)) =>
                      get_membership_config(env') = Unwrap(LastConfigChange(es))
       /\ (last'.op \in {"append_entry_to_log", "replicate_to_log"} /\ last'.err # Ok) =>
            env' = env]_vars

\* C5 witness: an append of a ConfigChange for {1, 2} has returned and the
\* membership slot holds {1, 2}.
C5_Witness ==
    /\ Returned("append_entry_to_log")
    /\ Unwrap(last.ret).payload.kind = "ConfigChange"
    /\ Unwrap(last.ret).payload.membership = {1, 2}
    /\ env.logs[last.index] = last.ret
    /\ env.membership = Some({1, 2})

\* C4: the membership that get_membership_config() reads from the slot is the
\* one carried by the most recent (highest-index) ConfigChange or snapshot
\* pointer entry of the log.
IsConfig(o) == IsSome(o) /\ Unwrap(o).payload.kind \in {"ConfigChange", "SnapshotPointer"}

C4_MembershipIsLatestInLog ==
    \A k \in Idx :
        (IsConfig(env.logs[k]) /\ \A j \in Idx : j > k => ~IsConfig(env.logs[j])) =>
            get_membership_config(env) = Unwrap(env.logs[k]).payload.membership

\* C7: when the Snapshot Descriptor slot is set, the file it names exists and
\* the log holds, at the descriptor's index, a snapshot pointer with the
\* descriptor's term and id.
C7_DescriptorMatchesFileAndLog ==
    IsSome(env.snapshot_path) =>
        LET d == Unwrap(env.snapshot_path)
        IN /\ IsSome(snapshot_dir[d.id])
           /\ IsPointer(env.logs[d.index])
           /\ Unwrap(env.logs[d.index]).term = d.term
           /\ Unwrap(env.logs[d.index]).payload.id = d.id

\* C10: get_initial_state() right after a successful
\* finalize_snapshot_installation(index, term, None, ..) reports
\* last_log_index = index and last_log_term = term.
C10_InitialStateAfterInstall ==
    [][(/\ Returned("finalize_snapshot_installation")
        /\ Unwrap(last.ret).delete_through = None
        /\ last'.op = "get_initial_state" /\ last'.err = Ok) =>
            /\ Unwrap(last'.ret).last_log_index = last.index
            /\ Unwrap(last'.ret).last_log_term = Unwrap(last.ret).term]_vars

\* C9: with no hard state persisted, get_initial_state() returns the initial
\* state and persists its hard state; a get_initial_state() after it finds
\* the hard state present and returns the same hard state.
C9_InitialStateOnEmptyStart ==
    [][/\ (env.hard_state = None /\ last'.op = "get_initial_state" /\ last'.err = Ok) =>
            /\ last'.ret = Some([last_log_index |-> 0, last_log_term |-> 0,
                                 last_applied_log |-> 0,
                                 hard_state |-> [current_term |-> 0, voted_for |-> None],
                                 membership |-> {Self}])
            /\ env'.hard_state = Some([current_term |-> 0, voted_for |-> None])
       /\ (Returned("get_initial_state") /\ last'.op = "get_initial_state" /\ last'.err = Ok) =>
            /\ IsSome(env.hard_state)
            /\ Unwrap(last'.ret).hard_state = Unwrap(last.ret).hard_state]_vars

\* C9 witness: get_initial_state() has returned the initial state on a store
\* that holds log entries (so it took the no-hard-state path) and the initial
\* hard state is persisted.
C9_Witness ==
    /\ Returned("get_initial_state")
    /\ Unwrap(last.ret).last_log_index = 0
    /\ \E k \in Idx : IsSome(env.logs[k])
    /\ env.hard_state = Some([current_term |-> 0, voted_for |-> None])

\* C3: once apply_entry_to_state_machine(i, r) has returned Ok and the process
\* is killed and reopened, get_initial_state() reports last_applied >= i.
C3_LastAppliedSurvivesRestart ==
    [][(last.op = "new" /\ last.index > 0 /\ last'.op = "get_initial_state" /\ last'.err = Ok) =>
            Unwrap(last'.ret).last_applied_log >= last.index]_vars

\* C6: the persisted last-applied watermark is at most the index of the last
\* log entry.
C6_LastAppliedWithinLog ==
    unwrap_or(last_applied_log(env), 0) <= last_log_index(env.logs)

\* C2: a successful finalize_snapshot_installation(index, term, None, id, ..)
\* leaves no log entry but a snapshot pointer at `index` with (term, id), the
\* Snapshot Descriptor (index, term, id), and as live application database the
\* one archived in the file of that id.
C2_InstallReplacesLogAndDatabase ==
    [][(/\ last'.op = "finalize_snapshot_installation" /\ last'.err = Ok
        /\ Unwrap(last'.ret).delete_through = None) =>
            LET index == last'.index
                term == Unwrap(last'.ret).term
                id == Unwrap(last'.ret).id
            IN /\ \A k \in Idx : k # index => env'.logs[k] = None
               /\ IsPointer(env'.logs[index])
               /\ Unwrap(env'.logs[index]).term = term
               /\ Unwrap(env'.logs[index]).payload.id = id
               /\ IsSome(env'.snapshot_path)
               /\ Unwrap(env'.snapshot_path).index = index
               /\ Unwrap(env'.snapshot_path).term = term
               /\ Unwrap(env'.snapshot_path).id = id
               /\ IsSome(snapshot_dir[id])
               /\ db' = Unwrap(snapshot_dir[id]).content]_vars

\* C2 witness: an install has returned on a store whose database had moved on
\* since the snapshot was taken: the pointer is the only entry and the live
\* database is the archived one, which lacks a command the log index 2 stood for.
C2_Witness ==
    /\ Returned("finalize_snapshot_installation")
    /\ Unwrap(last.ret).delete_through = None
    /\ \A k \in Idx : k # last.index => env.logs[k] = None
    /\ IsPointer(env.logs[last.index])
    /\ env.last_commited = Some(2)
    /\ 2 \notin db.applied
    /\ db = Unwrap(snapshot_dir[Unwrap(env.snapshot_path).id]).content

\* C8: the snapshot file the descriptor names after do_log_compaction(through)
\* archives the state of a replica that applied exactly the entries
\* 1..through, also when the local state machine has applied further entries.
C8_SnapshotHoldsStateAtThrough ==
    (Returned("do_log_compaction") /\ (1..last.index) \subseteq db.applied) =>
        Unwrap(snapshot_dir[Unwrap(env.snapshot_path).id]).content.applied = 1..last.index


\* C11: an append_entry_to_log that returns Ok never wrote over an entry of a
\* different term: the index it writes was empty or held an entry of the same
\* term (an entry that a delete_logs_from covered is no longer there).
C11_AppendConflictRejected ==
    [][(last'.op = "append_entry_to_log" /\ last'.err = Ok) =>
            LET e == Unwrap(last'.ret)
            IN ~(/\ IsSome(env.logs[e.index])
                 /\ Unwrap(env.logs[e.index]).term # e.term)]_vars


\* C12: a successful delete_logs_from(start, stop) removes the entries with
\* start <= index < stop (every index >= start when stop is None), leaves every
\* other entry and the four meta slots as they were; and an append at i right
\* after delete_logs_from(i, None) leaves its entry at i, as the last entry of
\* the log, with nothing above i.
C12_DeleteLogsFromRange ==
    [][/\ (last'.op = "delete_logs_from" /\ last'.err = Ok) =>
            LET start == last'.index
                stop == Unwrap(last'.ret)
            IN /\ \A k \in Idx :
                    env'.logs[k] = IF k >= start /\ (stop = None \/ k < Unwrap(stop))
                                   THEN None ELSE env.logs[k]
               /\ env'.hard_state = env.hard_state
               /\ env'.membership = env.membership
               /\ env'.last_commited = env.last_commited
               /\ env'.snapshot_path = env.snapshot_path
       /\ (/\ Returned("delete_logs_from") /\ Unwrap(last.ret) = None
           /\ last'.op = "append_entry_to_log" /\ last'.err = Ok
           /\ last'.index = last.index) =>
            /\ env'.logs[last'.index] = last'.ret
            /\ logs_last(env'.logs) = last'.ret
            /\ \A k \in Idx : k > last'.index => env'.logs[k] = None]_vars

\* C12 witness: delete_logs_from(1, Some(2)) has returned on a log that held a
\* snapshot pointer at 1 and an entry at 2: index 1 is empty, index 2 is still
\* there, and the membership and descriptor slots are set.
C12_Witness ==
    /\ Returned("delete_logs_from")
    /\ last.index = 1
    /\ Unwrap(last.ret) = Some(2)
    /\ env.logs[1] = None
    /\ IsSome(env.logs[2])
    /\ IsSome(env.membership)
    /\ IsSome(env.snapshot_path) /\ Unwrap(env.snapshot_path).index = 1


\* C13: apply_entry_to_state_machine(i, r) fails on account of the command
\* only when r is a document batch that does not parse, and then the
\* last-applied slot keeps its value; for every other command whose
\* transaction commits, accepted or rejected by the store, the call returns Ok
\* with the Response variant of the command, whose arm tells whether the store
\* accepted it, and the last-applied slot holds i.
Accepts(d, message) ==
    IF message.kind = "CreateIndex" THEN message.uid \notin d.indexes
    ELSE message.uid \in d.indexes

ResponseVariant(message) ==
    IF message.kind = "CreateIndex" THEN "IndexUpdate"
    ELSE IF message.kind = "DeleteIndex" THEN "DeleteIndex"
    ELSE "UpdateResponse"

C13_RejectionIsAResponse ==
    [][last'.op = "apply_entry_to_state_machine" =>
            LET message == Unwrap(last'.ret).request.message
                response == Unwrap(last'.ret).response
                unparsed == message.kind = "DocumentAddition" /\ ~message.parses
            IN /\ (last'.err = "DeserializationError") <=> unparsed
               /\ unparsed => env' = env
               /\ ~unparsed => last'.err \in {Ok, TransactionFailure}
               /\ last'.err = Ok =>
                    /\ response = Some([variant |-> ResponseVariant(message),
                                        ok |-> Accepts(db, message)])
                    /\ env'.last_commited = Some(last'.index)]_vars

\* C13 witness: a CreateIndex for a uid that exists has returned Ok carrying
\* the failure arm of IndexUpdate, at an index above the last one applied, and
\* the last-applied slot holds that index.
C13_Witness ==
    /\ Returned("apply_entry_to_state_machine")
    /\ Unwrap(last.ret).request.message.kind = "CreateIndex"
    /\ Unwrap(last.ret).response = Some([variant |-> "IndexUpdate", ok |-> FALSE])
    /\ last.index = 2
    /\ 1 \in db.applied
    /\ env.last_commited = Some(2)


\* C14: no call executes on the application database the command of a log
\* index whose command the database has already executed.
C14_NoCommandAppliedTwice ==
    [][/\ (last'.op = "apply_entry_to_state_machine" /\ last'.err # "DeserializationError") =>
            last'.index \notin db.applied
       /\ (last'.op = "replicate_to_state_machine" /\ last'.err = Ok) =>
            \A j \in 1..Len(Unwrap(last'.ret)) : Unwrap(last'.ret)[j][1] \notin db.applied]_vars


\* C15: after a successful replicate_to_state_machine(entries) the application
\* database is the one that results from executing the commands of the batch
\* one after the other in batch order, the last-applied slot holds the index of
\* the final entry (for an empty batch the value it read before), and nothing
\* else of the environment has changed.
RECURSIVE ExecutedInOrder(_, _)
ExecutedInOrder(d, entries) ==
    IF entries = << >> THEN d
    ELSE ExecutedInOrder(executed(apply_message(d, Head(entries)[2].message).db, Head(entries)[1]),
                         Tail(entries))

C15_BatchAppliedInOrder ==
    [][(last'.op = "replicate_to_state_machine" /\ last'.err = Ok) =>
            LET entries == Unwrap(last'.ret)
            IN /\ db' = ExecutedInOrder(db, entries)
               /\ unwrap_or(env'.last_commited, 0) =
                      IF entries = << >> THEN unwrap_or(env.last_commited, 0)
                      ELSE entries[Len(entries)][1]
               /\ [env' EXCEPT !.last_commited = None] = [env EXCEPT !.last_commited = None]]_vars

\* C15 witness: a batch of two commands has returned: CreateIndex at index 1
\* and DocumentAddition at index 2 were executed in that order, so the index
\* holds documents, and the last-applied slot holds 2.
C15_Witness ==
    /\ Returned("replicate_to_state_machine")
    /\ Len(Unwrap(last.ret)) = 2
    /\ Unwrap(last.ret)[1][2].message.kind = "CreateIndex"
    /\ Unwrap(last.ret)[2][2].message.kind = "DocumentAddition"
    /\ db.documents = {"movies"}
    /\ db.applied = {1, 2}
    /\ env.last_commited = Some(2)


\* C16: with two append_entry_to_log calls for distinct indices running at the
\* same time, at most one of them holds a write transaction at any moment;
\* once both have returned the environment is what one of the two serial
\* orders of the two appends leaves; a get_log_entries next to them returns
\* only entries of calls that have committed; and every call that has started
\* returns.
SerialAppends(a, b) ==
    put_log(put_log([logs |-> [k \in Idx |-> None], hard_state |-> None,
                     last_commited |-> None, membership |-> None, snapshot_path |-> None],
                    a.index, a),
            b.index, b)

C16_Serialized ==
    /\ Cardinality({t \in Tasks : writer(t)}) <= 1
    /\ (\A t \in Tasks : tasks[t].pc = "done") =>
          \/ env = SerialAppends(Unwrap(tasks[1].entry), Unwrap(tasks[2].entry))
          \/ env = SerialAppends(Unwrap(tasks[2].entry), Unwrap(tasks[1].entry))
    /\ last.op = "get_log_entries" =>
          \A j \in 1..Len(Unwrap(last.ret)) :
              \E t \in Tasks : tasks[t].pc = "done" /\ tasks[t].entry = Some(Unwrap(last.ret)[j])

C16_ConcurrentAppendsBothSucceed ==
    /\ []C16_Serialized
    /\ \A t \in Tasks : (tasks[t].pc # "idle") ~> (tasks[t].pc = "done")

\* C16 witness: both calls have returned after the second one waited for the
\* first: both entries are in the log, and the membership slot holds the
\* configuration of call 1, which differs from that of call 2 (call 1
\* committed last).
C16_Witness ==
    /\ \A t \in Tasks : tasks[t].pc = "done"
    /\ \A t \in Tasks : env.logs[Unwrap(tasks[t].entry).index] = tasks[t].entry
    /\ \A t \in Tasks : Unwrap(tasks[t].entry).payload.kind = "ConfigChange"
    /\ Unwrap(tasks[1].entry).payload.membership # Unwrap(tasks[2].entry).payload.membership
    /\ env.membership = Some(Unwrap(tasks[1].entry).payload.membership)


\* C17: when do_log_compaction or create_snapshot allocates a snapshot id, its
\* counter value is greater than that of every snapshot file in the snapshot
\* directory (each of which was named by an earlier allocation).
C17_SnapshotIdIsFresh ==
    [][(/\ last'.op \in {"do_log_compaction", "create_snapshot"}
        /\ next_serial' = next_serial + 1) =>
            \A n \in Serials : IsSome(snapshot_dir[n]) => n < next_serial]_vars


\* C18: a do_log_compaction that stops before the rename (outcome IO) or
\* between the rename and the commit (outcome TransactionFailure) leaves the
\* log and the meta slots as they were, and the snapshot file the descriptor
\* names with the content it had; stopping before the rename leaves every
\* snapshot file as it was; reopening the store changes none of these.
C18_CompactionCrashConsistent ==
    [][/\ (last'.op = "do_log_compaction" /\ last'.err \in {"IO", TransactionFailure}) =>
            /\ env' = env
            /\ IsSome(env.snapshot_path) =>
                   snapshot_dir'[Unwrap(env.snapshot_path).id] =
                       snapshot_dir[Unwrap(env.snapshot_path).id]
            /\ last'.err = "IO" => snapshot_dir' = snapshot_dir
       /\ last'.op = "new" => (env' = env /\ snapshot_dir' = snapshot_dir)]_vars


\* C19: do_log_compaction(through) fails with the inconsistent-log error when
\* the log has no entry at `through`, and then the log, the meta slots, the
\* application database, the snapshot id counter and the files of the snapshot
\* directory are as before the call; a compaction that returns Ok found an
\* entry at `through`.
C19_CompactionOfAbsentEntry ==
    [][/\ (last'.op = "do_log_compaction" /\ last'.err = "InconsistentLog") =>
            /\ env.logs[last'.index] = None
            /\ UNCHANGED << env, db, snapshot_dir, temp_snap, next_serial >>
       /\ (last'.op = "do_log_compaction" /\ last'.err # "InconsistentLog") =>
            /\ \E k \in Idx : IsSome(env.logs[k])
            /\ next_serial' = next_serial + 1
       /\ (last'.op = "do_log_compaction" /\ last'.err = Ok) => IsSome(env.logs[last'.index])]_vars

\* C19 witness: a compaction through index 1 has failed with the
\* inconsistent-log error on a store whose log holds an entry at index 2, whose
\* counter has issued an id and whose directory holds a snapshot file.
C19_Witness ==
    /\ last.op = "do_log_compaction"
    /\ last.err = "InconsistentLog"
    /\ last.index = 1
    /\ env.logs[1] = None
    /\ IsSome(env.logs[2])
    /\ next_serial = 1
    /\ IsSome(snapshot_dir[0])


\* C20: an install that swaps the database handle while requests hold it
\* leaves those requests on a handle to the database that was live, and the
\* new handle with no holder yet (whoever reads from now on gets the new
\* database); a swapped-out database keeps its content, open, while a request
\* holds it; and the environment of a swapped-out handle is never closed
\* while a request still holds it.
C20_NeverClosedInUse == \A e \in handles.old : e.closed => e.readers = 0

C21_InstallAllOrNothing ==
    [][(last'.op = "finalize_snapshot_installation" /\ last'.err # Ok) =>
            /\ env' = env
            /\ db' = db]_vars

====
